---- MODULE Spec2Model ----
(***************************************************************************)
(* bbreader (utils): reads time-ordered binary datafiles, merges them      *)
(* through bb::DFStreamMplex, filters by [start_tv, end_tv), applies the   *)
(* head / trim / tail windows and writes the result through a transport.   *)
(*                                                                         *)
(* main, MessageHandler, TrimmedOutput and TailedOutput are modelled from  *)
(* the source.  bb::DFStreamMplex, the datafile readers and the write      *)
(* transports belong to the bb framework, whose code is not in the         *)
(* repository; they are modelled from the design document (sections 4.1 -  *)
(* 4.4) and marked as such in the model map.                               *)
(*                                                                         *)
(* alphaless::Strategy (the sample strategy) is a second program of the    *)
(* repository.  Its callbacks are modelled from the source; the framework  *)
(* that calls them (ticks, books, timers, user messages, fills, signals)   *)
(* is the environment.  It has its own next-state relation, StrategyNext.  *)
(***************************************************************************)
EXTENDS Integers, Sequences, FiniteSets, TLC

VARIABLES
    cfg,          \* parsed options of main
    inputs,       \* the datafiles named on the command line
    sinkFailAt,   \* the terminal transport's n-th send throws (0: never)
    pc,           \* position of main
    idx,          \* BOOST_FOREACH position in inputs
    dfm,          \* streams added to the DFStreamMplex, in add() order
    cache,        \* DFStreamMplex: next unconsumed message per stream
    live,         \* DFStreamMplex: streams not yet exhausted
    stopped,      \* DFStreamMplex: stop() was called
    readError,    \* DFStreamMplex: a stream ended with a read error
    seen,         \* MessageHandler::m_messagesSeen
    trimBuf,      \* TrimmedOutput::buf
    tailBuf,      \* TailedOutput::buf
    written,      \* messages written by the terminal transport
    sends,        \* calls of the terminal transport's send so far
    file_error,   \* main: file_error
    exitStatus,   \* value returned by main / way the process ended
    warnings,     \* number of LOG_WARN lines of the open loop
    delivered,    \* history: messages handed to onMessage
    forwarded,    \* history: messages handed to m_out->send
    trimmed,      \* history: messages TrimmedOutput handed to out->send
    freed,        \* history: buffered copies deleted, as <<window, message>>
    stream_names, \* main: the keys of stream_names, as <<input, object>>
    cout,         \* what was written to the output, prefixes and messages
    output_sink,  \* main: output_sink ("none" until it is created)
    m_strategySettings, \* Strategy: start and end time, shares
    m_instrs,           \* Strategy: the instruments traded
    m_trade,            \* Strategy: the trading flag
    m_entryOrdersSent,  \* Strategy: entry latch
    m_exitOrdersSent,   \* Strategy: exit latch
    s_tradeOnce,        \* onBookChanged: static latch
    m_posMap,           \* Strategy: last position reported per instrument
    orders,             \* orders handed to ITrader::sendOrder, with their fills
    cancels,            \* orders handed to ITrader::sendCancel, in call order
    lastCommand,        \* history: last SEND_NOTHING / ALLOW_SENDING handled
    shutdowns,          \* history: calls of Strategy::shutdown
    now,                \* IClientContext::getTime, in seconds
    shutdownTimerSub,   \* Strategy: the shutdown timer is subscribed
    exitAt,             \* time the shutdown timer was scheduled for
    exited              \* IMStreamManager::exit / TradingContext::exit called

vars == <<cfg, inputs, sinkFailAt, pc, idx, dfm, cache, live, stopped,
          readError, seen, trimBuf, tailBuf, written, sends, file_error,
          exitStatus, warnings, delivered, forwarded, trimmed, freed,
          stream_names, cout, output_sink,
          m_strategySettings, m_instrs, m_trade, m_entryOrdersSent,
          m_exitOrdersSent, s_tradeOnce, m_posMap, orders, cancels,
          lastCommand, shutdowns, now, shutdownTimerSub, exitAt, exited>>

\* the state of bbreader
readerVars == <<cfg, inputs, sinkFailAt, pc, idx, dfm, cache, live, stopped,
                readError, seen, trimBuf, tailBuf, written, sends, file_error,
                exitStatus, warnings, delivered, forwarded, trimmed, freed,
                stream_names, cout, output_sink>>

\* the state of the strategy
strategyVars == <<m_strategySettings, m_instrs, m_trade, m_entryOrdersSent,
                  m_exitOrdersSent, s_tradeOnce, m_posMap, orders, cancels,
                  lastCommand, shutdowns, now, shutdownTimerSub, exitAt,
                  exited>>

----------------------------------------------------------------------------
(* Bounds of the explored inputs *)

MaxTime     == 3   \* record times of the window runs are 1..MaxTime
MaxStream   == 4   \* records of the datafile of the window runs
MaxWin      == 2   \* head / tail / trim counts
MergeTime   == 2   \* record times of the runs with several datafiles
MaxDelay    == 1   \* +delay suffixes are 0..MaxDelay
MaxLen      == 2   \* records per datafile of the merge runs
MergeFiles  == 2   \* datafiles of the merge runs
OpenFiles   == 3   \* datafiles of the runs with open failures
OpenLen     == 1   \* records per datafile of the runs with open failures
FaultFiles  == 2   \* datafiles of the runs with read or transport faults
FaultLen    == 1   \* records per datafile of those runs
MaxSinkFail == 1   \* latest send of the terminal transport that may throw

Max(a, b) == IF a >= b THEN a ELSE b

earliest == 0
latest   == Max(MaxTime, MergeTime) + MaxDelay + 1

Times == 1 .. MaxTime

MergeTimes == 1 .. MergeTime

NoMsg == [t |-> 0, src |-> 0, k |-> 0]

RECURSIVE SeqsUpTo(_, _)
SeqsUpTo(S, n) ==
    IF n = 0 THEN {<<>>}
    ELSE LET shorter == SeqsUpTo(S, n - 1)
         IN  shorter \cup {Append(s, x) : s \in {q \in shorter : Len(q) = n - 1}, x \in S}

IsSorted(s) == \A a, b \in 1 .. Len(s) : a < b => s[a] <= s[b]

\* the datafiles that are in time order, as the writers produce them
SortedSeqsUpTo(S, n) == {s \in SeqsUpTo(S, n) : IsSorted(s)}

----------------------------------------------------------------------------
(* Sources *)

\* DFSearchReader::search: binary search for the first record at or after tv
RECURSIVE search(_, _, _, _)
search(msgs, lo, hi, tv) ==
    IF lo >= hi THEN lo
    ELSE LET mid == (lo + hi) \div 2
         IN  IF msgs[mid] < tv THEN search(msgs, mid + 1, hi, tv)
                               ELSE search(msgs, lo, mid, tv)

\* variant: the search reader is dropped only when both conditions hold
ReaderMode_and == IF cfg.start_tv = earliest /\ cfg.linear_only THEN "linear" ELSE "search"

\* main: which reader is built for a datafile
ReaderMode == IF cfg.start_tv = earliest \/ cfg.linear_only THEN "linear" ELSE "search"

\* extract_fname: the base file name and the delay of an input; an input
\* without a +delay suffix carries the zero delay
extract_fname(f) ==
    [filename |-> IF f.stdin THEN "-" ELSE "datafile", delay |-> f.delay]

\* variant: "-" is opened like any datafile
ReaderOf_noStdin(f) == ReaderMode

\* main: the reader built for an input: DFReader on stdin for "-", else
\* SingleDFStream or DFSearchReader
ReaderOf(f) == IF extract_fname(f).filename = "-" THEN "stdin" ELSE ReaderMode

\* first record a freshly opened reader yields
FirstPos(f) ==
    IF ReaderOf(f) = "search"
    THEN search(f.msgs, 1, Len(f.msgs) + 1, cfg.start_tv)
    ELSE 1

\* variant: the reader is registered bare, whatever the delay
dfm_add_noDelay(a) ==
    LET f == inputs[a]
    IN  [inp |-> a, delay |-> 0, pos |-> FirstPos(f),
         reader |-> ReaderOf(f), first |-> FirstPos(f), wrapped |-> FALSE]

\* main: the stream handed to dfm->add for input a: the reader itself for
\* the zero delay, else a FixedDelayDFStream around it
dfm_add(a) ==
    LET f == inputs[a]
        delay == extract_fname(f).delay
    IN  [inp |-> a, delay |-> delay, pos |-> FirstPos(f),
         reader |-> ReaderOf(f), first |-> FirstPos(f), wrapped |-> delay # 0]

\* variant: the reader reports the end of the stream one record early
ReadNext_dropsLast(s) ==
    LET f == inputs[s.inp]
    IN  IF f.errAt = s.pos THEN [kind |-> "ReadError", msg |-> NoMsg]
        ELSE IF s.pos >= Len(f.msgs) THEN [kind |-> "EndOfStream", msg |-> NoMsg]
        ELSE [kind |-> "Message",
              msg  |-> [t |-> f.msgs[s.pos] + s.delay, src |-> s.inp, k |-> s.pos]]

\* Source.next(): the record at the cursor, shifted by the stream's delay
ReadNext(s) ==
    LET f == inputs[s.inp]
    IN  IF f.errAt = s.pos THEN [kind |-> "ReadError", msg |-> NoMsg]
        ELSE IF s.pos > Len(f.msgs) THEN [kind |-> "EndOfStream", msg |-> NoMsg]
        ELSE [kind |-> "Message",
              msg  |-> [t |-> f.msgs[s.pos] + s.delay, src |-> s.inp, k |-> s.pos]]

----------------------------------------------------------------------------
(* Sink chain.  A chain state is [trim, tail, written, sends, threw,      *)
(* trimmed, freed, cout].                                                  *)

\* terminal transport: encodes and writes at once, or throws
TerminalSend(c, m) ==
    IF c.sends + 1 = sinkFailAt
    THEN [c EXCEPT !.sends = @ + 1, !.threw = TRUE]
    ELSE [c EXCEPT !.sends = @ + 1, !.written = Append(@, m),
                   !.cout = Append(@, <<"msg", m>>)]

\* variant: the loop of TailedOutput::send keeps one message too many
RECURSIVE TailedOutput_pop_offByOne(_, _)
TailedOutput_pop_offByOne(buf, num) ==
    IF Len(buf) > num + 1 THEN TailedOutput_pop_offByOne(Tail(buf), num) ELSE buf

RECURSIVE TailedOutput_pop(_, _)
TailedOutput_pop(buf, num) ==
    IF Len(buf) > num THEN TailedOutput_pop(Tail(buf), num) ELSE buf

\* variant: TailedOutput::send hands a message on when it drops it
RECURSIVE TailedOutput_send_loop(_)
TailedOutput_send_loop(c) ==
    IF Len(c.tail) > cfg.tail_len
    THEN LET d == TerminalSend(c, Head(c.tail))
         IN  IF d.threw THEN d
             ELSE TailedOutput_send_loop([d EXCEPT !.tail = Tail(@)])
    ELSE c

TailedOutput_send_forward(c, m) ==
    TailedOutput_send_loop([c EXCEPT !.tail = Append(@, m)])

\* the copies delete is called on when buf shrinks to kept
Deleted(window, buf, kept) ==
    [a \in 1 .. Len(buf) - Len(kept) |-> <<window, buf[a]>>]

TailedOutput_send(c, m) ==
    LET buf  == Append(c.tail, m)
        kept == TailedOutput_pop(buf, cfg.tail_len)
    IN  [c EXCEPT !.tail = kept, !.freed = @ \o Deleted("tail", buf, kept)]

\* variant: TrimmedOutput is built around the terminal transport, past the tail
TrimmedOutput_out_terminal(c, m) == TerminalSend(c, m)

\* the transport TrimmedOutput wraps
TrimmedOutput_out(c, m) ==
    IF cfg.tail_len > 0 THEN TailedOutput_send(c, m) ELSE TerminalSend(c, m)

RECURSIVE TrimmedOutput_loop(_)
TrimmedOutput_loop(c) ==
    IF Len(c.trim) > cfg.trim_len
    THEN LET d == TrimmedOutput_out([c EXCEPT !.trimmed = Append(@, Head(c.trim))],
                                    Head(c.trim))
         IN  IF d.threw THEN d
             ELSE TrimmedOutput_loop([d EXCEPT !.trim = Tail(@),
                                               !.freed = Append(@, <<"trim", Head(c.trim)>>)])
    ELSE c

TrimmedOutput_send(c, m) ==
    TrimmedOutput_loop([c EXCEPT !.trim = Append(@, m)])

\* variant: the chain is built with the tail window outermost
m_out_send_tailFirst(c, m) ==
    IF cfg.tail_len > 0 THEN TailedOutput_send(c, m)
    ELSE IF cfg.trim_len > 0 THEN TrimmedOutput_send(c, m)
    ELSE TerminalSend(c, m)

\* m_out->send for the chain main builds
m_out_send(c, m) ==
    IF cfg.trim_len > 0 THEN TrimmedOutput_send(c, m)
    ELSE IF cfg.tail_len > 0 THEN TailedOutput_send(c, m)
    ELSE TerminalSend(c, m)

Chain == [trim |-> trimBuf, tail |-> tailBuf, written |-> written,
          sends |-> sends, threw |-> FALSE, trimmed |-> trimmed,
          freed |-> freed, cout |-> cout]

\* variant: ~TailedOutput frees its buffer without sending it
TailedOutput_dtor_discard(c) ==
    [c EXCEPT !.tail = <<>>, !.freed = @ \o Deleted("tail", c.tail, <<>>)]

\* ~TailedOutput: send every buffered message, stop at the first throw
RECURSIVE TailedOutput_dtor(_)
TailedOutput_dtor(c) ==
    IF c.tail = <<>> THEN c
    ELSE LET d == TerminalSend(c, Head(c.tail))
         IN  IF d.threw THEN d
             ELSE TailedOutput_dtor([d EXCEPT !.tail = Tail(@),
                                              !.freed = Append(@, <<"tail", Head(c.tail)>>)])

\* variant: ~TrimmedOutput hands the buffered messages on, as ~TailedOutput does
RECURSIVE TrimmedOutput_dtor_flush(_)
TrimmedOutput_dtor_flush(c) ==
    IF c.trim = <<>> THEN c
    ELSE LET d == TrimmedOutput_out([c EXCEPT !.trimmed = Append(@, Head(c.trim))],
                                    Head(c.trim))
         IN  IF d.threw THEN d
             ELSE TrimmedOutput_dtor_flush([d EXCEPT !.trim = Tail(@)])

\* ~TrimmedOutput: free the buffer, then release the wrapped transport
TrimmedOutput_dtor(c) ==
    [c EXCEPT !.trim = <<>>, !.freed = @ \o Deleted("trim", c.trim, <<>>)]

----------------------------------------------------------------------------
(* MessageHandler::onMessage; the result says what the handler did *)

\* variant: the handler has no head limiter
onMessage_noHead(c, msg) ==
    IF msg.t >= cfg.end_tv
    THEN [chain |-> c, stop |-> TRUE, sent |-> FALSE]
    ELSE IF msg.t >= cfg.start_tv
    THEN [chain |-> m_out_send(c, msg), stop |-> FALSE, sent |-> TRUE]
    ELSE [chain |-> c, stop |-> FALSE, sent |-> FALSE]

\* variant: a message at or after end_tv is dropped without a call of stop()
onMessage_noEndStop(c, msg) ==
    IF cfg.head_len > 0 /\ seen >= cfg.head_len
    THEN [chain |-> c, stop |-> TRUE, sent |-> FALSE]
    ELSE IF msg.t >= cfg.end_tv
    THEN [chain |-> c, stop |-> FALSE, sent |-> FALSE]
    ELSE IF msg.t >= cfg.start_tv
    THEN [chain |-> m_out_send(c, msg), stop |-> FALSE, sent |-> TRUE]
    ELSE [chain |-> c, stop |-> FALSE, sent |-> FALSE]

\* variant: a message before start_tv is counted although it is dropped
onMessage_countsDropped(c, msg) ==
    IF cfg.head_len > 0 /\ seen >= cfg.head_len
    THEN [chain |-> c, stop |-> TRUE, sent |-> FALSE]
    ELSE IF msg.t >= cfg.end_tv
    THEN [chain |-> c, stop |-> TRUE, sent |-> FALSE]
    ELSE IF msg.t >= cfg.start_tv
    THEN [chain |-> m_out_send(c, msg), stop |-> FALSE, sent |-> TRUE]
    ELSE [chain |-> c, stop |-> FALSE, sent |-> TRUE]

\* variant: the head count is compared with > instead of >=
onMessage_headOffByOne(c, msg) ==
    IF cfg.head_len > 0 /\ seen > cfg.head_len
    THEN [chain |-> c, stop |-> TRUE, sent |-> FALSE]
    ELSE IF msg.t >= cfg.end_tv
    THEN [chain |-> c, stop |-> TRUE, sent |-> FALSE]
    ELSE IF msg.t >= cfg.start_tv
    THEN [chain |-> m_out_send(c, msg), stop |-> FALSE, sent |-> TRUE]
    ELSE [chain |-> c, stop |-> FALSE, sent |-> FALSE]

\* variant: the start of the range is exclusive
onMessage_strictStart(c, msg) ==
    IF cfg.head_len > 0 /\ seen >= cfg.head_len
    THEN [chain |-> c, stop |-> TRUE, sent |-> FALSE]
    ELSE IF msg.t >= cfg.end_tv
    THEN [chain |-> c, stop |-> TRUE, sent |-> FALSE]
    ELSE IF msg.t > cfg.start_tv
    THEN [chain |-> m_out_send(c, msg), stop |-> FALSE, sent |-> TRUE]
    ELSE [chain |-> c, stop |-> FALSE, sent |-> FALSE]

onMessage(c, msg) ==
    IF cfg.head_len > 0 /\ seen >= cfg.head_len
    THEN [chain |-> c, stop |-> TRUE, sent |-> FALSE]
    ELSE IF msg.t >= cfg.end_tv
    THEN [chain |-> c, stop |-> TRUE, sent |-> FALSE]
    ELSE IF msg.t >= cfg.start_tv
    THEN [chain |-> m_out_send(c, msg), stop |-> FALSE, sent |-> TRUE]
    ELSE [chain |-> c, stop |-> FALSE, sent |-> FALSE]

----------------------------------------------------------------------------
(* DFStreamMplex *)

\* variant: the stream order decides alone, cached times are ignored
Earliest_firstAdded == CHOOSE s \in live : \A r \in live : s <= r

\* variant: the stream added last wins a tie
Earliest_lastAdded ==
    CHOOSE s \in live :
        \A r \in live : cache[s].t < cache[r].t
                        \/ (cache[s].t = cache[r].t /\ s >= r)

\* the live stream whose cached message is earliest; first added wins a tie
Earliest ==
    CHOOSE s \in live :
        \A r \in live : cache[s].t < cache[r].t
                        \/ (cache[s].t = cache[r].t /\ s <= r)

----------------------------------------------------------------------------
(* Initial states: the command line, the datafiles and the transport *)

FileSet(lens, delays, opens, errs) ==
    {[msgs |-> m, delay |-> d, openFails |-> o, errAt |-> e, stdin |-> FALSE] :
        m \in lens, d \in delays, o \in opens,
        e \in errs}

\* the same contents given as a datafile or piped in and named "-"
StdinOrFile(Files) == {[f EXCEPT !.stdin = b] : f \in Files, b \in BOOLEAN}

InputsOf(Files, Counts) == UNION {[1 .. n -> Files] : n \in Counts}

\* no strategy runs in the process of bbreader
StrategyAbsent ==
    /\ m_strategySettings = [start_time |-> 0, end_time |-> 0, shares |-> 0]
    /\ m_instrs = <<>>
    /\ m_trade = FALSE
    /\ m_entryOrdersSent = FALSE
    /\ m_exitOrdersSent = FALSE
    /\ s_tradeOnce = FALSE
    /\ m_posMap = <<>>
    /\ orders = <<>>
    /\ cancels = <<>>
    /\ lastCommand = "none"
    /\ shutdowns = 0
    /\ now = 0
    /\ shutdownTimerSub = FALSE
    /\ exitAt = 0
    /\ exited = FALSE

InitWith(Cfgs, Inputs, SinkFails) ==
    /\ StrategyAbsent
    /\ cfg \in Cfgs
    /\ inputs \in Inputs
    /\ \A a \in 1 .. Len(inputs) : inputs[a].errAt <= Len(inputs[a].msgs) + 1
    /\ sinkFailAt \in SinkFails
    /\ pc = "start"
    /\ idx = 1
    /\ dfm = <<>>
    /\ cache = <<>>
    /\ live = {}
    /\ stopped = FALSE
    /\ readError = FALSE
    /\ seen = 0
    /\ trimBuf = <<>>
    /\ tailBuf = <<>>
    /\ written = <<>>
    /\ sends = 0
    /\ file_error = FALSE
    /\ exitStatus = "running"
    /\ warnings = 0
    /\ delivered = <<>>
    /\ forwarded = <<>>
    /\ trimmed = <<>>
    /\ freed = <<>>
    /\ stream_names = {}
    /\ cout = <<>>
    /\ output_sink = "none"

----------------------------------------------------------------------------
(* main *)

\* variant: only end_tv before start_tv is refused
Validate_strictRange ==
    /\ pc = "start"
    /\ IF cfg.start_tv > cfg.end_tv \/ inputs = <<>>
       THEN /\ exitStatus' = "EXIT_FAILURE"
            /\ pc' = "done"
       ELSE /\ pc' = "open"
            /\ UNCHANGED exitStatus
    /\ UNCHANGED <<strategyVars, stream_names, cout, trimmed, freed, output_sink, cfg, inputs, sinkFailAt, idx, dfm, cache, live, stopped,
                   readError, seen, trimBuf, tailBuf, written, sends,
                   file_error, warnings, delivered, forwarded>>

\* variant: the range of the configuration is not validated
Validate_noRangeCheck ==
    /\ pc = "start"
    /\ IF inputs = <<>>
       THEN /\ exitStatus' = "EXIT_FAILURE"
            /\ pc' = "done"
       ELSE /\ pc' = "open"
            /\ UNCHANGED exitStatus
    /\ UNCHANGED <<strategyVars, stream_names, cout, trimmed, freed, output_sink, cfg, inputs, sinkFailAt, idx, dfm, cache, live, stopped,
                   readError, seen, trimBuf, tailBuf, written, sends,
                   file_error, warnings, delivered, forwarded>>

\* start_tv / end_tv check and the empty-inputs check
Validate ==
    /\ pc = "start"
    /\ IF cfg.start_tv >= cfg.end_tv \/ inputs = <<>>
       THEN /\ exitStatus' = "EXIT_FAILURE"
            /\ pc' = "done"
       ELSE /\ pc' = "open"
            /\ UNCHANGED exitStatus
    /\ UNCHANGED <<strategyVars, stream_names, cout, trimmed, freed, output_sink, cfg, inputs, sinkFailAt, idx, dfm, cache, live, stopped,
                   readError, seen, trimBuf, tailBuf, written, sends,
                   file_error, warnings, delivered, forwarded>>

\* variant: the exception of a failed open is not caught inside the loop
OpenInput_noCatch ==
    /\ pc = "open"
    /\ idx <= Len(inputs)
    /\ LET f == inputs[idx]
       IN  IF f.openFails
           THEN /\ pc' = "done"
                /\ exitStatus' = "ABORT"
                /\ UNCHANGED dfm
           ELSE /\ dfm' = Append(dfm, dfm_add(idx))
                /\ UNCHANGED <<pc, exitStatus>>
    /\ stream_names' = stream_names
    /\ idx' = idx + 1
    /\ UNCHANGED <<strategyVars, cout, trimmed, freed, output_sink, cfg, inputs, sinkFailAt, cache, live, stopped, warnings,
                   readError, seen, trimBuf, tailBuf, written, sends,
                   file_error, delivered, forwarded>>

\* one iteration of the BOOST_FOREACH over the inputs, try/catch included
OpenInput ==
    /\ pc = "open"
    /\ idx <= Len(inputs)
    /\ LET f == inputs[idx]
       IN  IF f.openFails
           THEN /\ warnings' = warnings + 1
                /\ UNCHANGED <<dfm, stream_names>>
           ELSE /\ dfm' = Append(dfm, dfm_add(idx))
                /\ stream_names' = IF cfg.print_names
                                   THEN stream_names \cup {<<idx, "reader">>}
                                   ELSE stream_names
                /\ UNCHANGED warnings
    /\ idx' = idx + 1
    /\ UNCHANGED <<strategyVars, cout, trimmed, freed, output_sink, cfg, inputs, sinkFailAt, pc, cache, live, stopped,
                   readError, seen, trimBuf, tailBuf, written, sends,
                   file_error, exitStatus, delivered, forwarded>>

\* file_error = false; the transport chain and the handler are built
Build ==
    /\ pc = "open"
    /\ idx > Len(inputs)
    /\ file_error' = FALSE
    /\ output_sink' = "created"
    /\ pc' = "run"
    /\ UNCHANGED <<strategyVars, stream_names, cout, trimmed, freed, cfg, inputs, sinkFailAt, idx, dfm, cache, live, stopped,
                   readError, seen, trimBuf, tailBuf, written, sends,
                   exitStatus, warnings, delivered, forwarded>>

\* dfm->run(&h) begins: every stream's cache slot is filled
StartRun ==
    /\ pc = "run"
    /\ LET first == [s \in 1 .. Len(dfm) |-> ReadNext(dfm[s])]
       IN  /\ cache' = [s \in 1 .. Len(dfm) |-> first[s].msg]
           /\ live' = {s \in 1 .. Len(dfm) : first[s].kind = "Message"}
           /\ readError' = \E s \in 1 .. Len(dfm) : first[s].kind = "ReadError"
           /\ dfm' = [s \in 1 .. Len(dfm) |->
                        IF first[s].kind = "Message"
                        THEN [dfm[s] EXCEPT !.pos = @ + 1] ELSE dfm[s]]
    /\ pc' = "mplex"
    /\ UNCHANGED <<strategyVars, stream_names, cout, trimmed, freed, output_sink, cfg, inputs, sinkFailAt, idx, stopped, seen, trimBuf,
                   tailBuf, written, sends, file_error, exitStatus, warnings,
                   delivered, forwarded>>

(***************************************************************************)
(* DFStreamMplex::getOrigin(): the registered stream the message being     *)
(* delivered came from, as <<input, object>>.  A source added without      *)
(* delay is the reader itself, a source added with a delay is the          *)
(* FixedDelayDFStream around the reader.                                   *)
(***************************************************************************)
getOrigin(s) ==
    IF dfm[s].wrapped THEN <<dfm[s].inp, "wrapper">> ELSE <<dfm[s].inp, "reader">>

\* onMessage, the m_streamNames block: look the origin up, throw when it is
\* not found, else write "file:<name> " to std::cout
printName(c, origin) ==
    IF ~cfg.print_names THEN c
    ELSE IF origin \notin stream_names THEN [c EXCEPT !.threw = TRUE]
    ELSE [c EXCEPT !.cout = Append(@, <<"file", origin[1]>>)]

\* variant: the loop does not look at the stop flag between deliveries
Deliver_ignoreStop ==
    /\ pc = "mplex"
    /\ live # {}
    /\ LET s == Earliest
           m == cache[s]
           n == printName(Chain, getOrigin(s))
           h == IF n.threw THEN [chain |-> n, stop |-> FALSE, sent |-> FALSE]
                ELSE onMessage(n, m)
           c == h.chain
           r == ReadNext(dfm[s])
       IN  /\ delivered' = Append(delivered, m)
           /\ forwarded' = IF h.sent THEN Append(forwarded, m) ELSE forwarded
           /\ trimBuf' = c.trim
           /\ tailBuf' = c.tail
           /\ written' = c.written
           /\ sends' = c.sends
           /\ trimmed' = c.trimmed
           /\ freed' = c.freed
           /\ cout' = c.cout
           /\ IF c.threw
              THEN /\ file_error' = TRUE
                   /\ pc' = "finish"
                   /\ UNCHANGED <<dfm, cache, live, stopped, readError, seen>>
              ELSE /\ seen' = IF h.sent THEN seen + 1 ELSE seen
                   /\ stopped' = (stopped \/ h.stop)
                   /\ cache' = [cache EXCEPT ![s] = r.msg]
                   /\ live' = IF r.kind = "Message" THEN live ELSE live \ {s}
                   /\ readError' = (readError \/ r.kind = "ReadError")
                   /\ dfm' = IF r.kind = "Message"
                             THEN [dfm EXCEPT ![s].pos = @ + 1] ELSE dfm
                   /\ UNCHANGED <<file_error, pc>>
    /\ UNCHANGED <<strategyVars, stream_names, output_sink, cfg, inputs, sinkFailAt, idx, exitStatus, warnings>>

\* one round of the multiplexer: deliver the earliest cached message to
\* onMessage, then refill its slot; a throw of the transport leaves run()
\* and is caught by main
Deliver ==
    /\ pc = "mplex"
    /\ ~stopped
    /\ live # {}
    /\ LET s == Earliest
           m == cache[s]
           n == printName(Chain, getOrigin(s))
           h == IF n.threw THEN [chain |-> n, stop |-> FALSE, sent |-> FALSE]
                ELSE onMessage(n, m)
           c == h.chain
           r == ReadNext(dfm[s])
       IN  /\ delivered' = Append(delivered, m)
           /\ forwarded' = IF h.sent THEN Append(forwarded, m) ELSE forwarded
           /\ trimBuf' = c.trim
           /\ tailBuf' = c.tail
           /\ written' = c.written
           /\ sends' = c.sends
           /\ trimmed' = c.trimmed
           /\ freed' = c.freed
           /\ cout' = c.cout
           /\ IF c.threw
              THEN /\ file_error' = TRUE
                   /\ pc' = "finish"
                   /\ UNCHANGED <<dfm, cache, live, stopped, readError, seen>>
              ELSE /\ seen' = IF h.sent THEN seen + 1 ELSE seen
                   /\ stopped' = h.stop
                   /\ cache' = [cache EXCEPT ![s] = r.msg]
                   /\ live' = IF r.kind = "Message" THEN live ELSE live \ {s}
                   /\ readError' = (readError \/ r.kind = "ReadError")
                   /\ dfm' = IF r.kind = "Message"
                             THEN [dfm EXCEPT ![s].pos = @ + 1] ELSE dfm
                   /\ UNCHANGED <<file_error, pc>>
    /\ UNCHANGED <<strategyVars, stream_names, output_sink, cfg, inputs, sinkFailAt, idx, exitStatus, warnings>>

\* variant: run() returns only after stop() was called
RunReturns_onlyOnStop ==
    /\ pc = "mplex"
    /\ stopped
    /\ pc' = "finish"
    /\ UNCHANGED <<strategyVars, stream_names, cout, trimmed, freed, output_sink, cfg, inputs, sinkFailAt, idx, dfm, cache, live, stopped,
                   readError, seen, trimBuf, tailBuf, written, sends,
                   file_error, exitStatus, warnings, delivered, forwarded>>

\* run() returns: no live stream is left, or stop() was called
RunReturns ==
    /\ pc = "mplex"
    /\ stopped \/ live = {}
    /\ pc' = "finish"
    /\ UNCHANGED <<strategyVars, stream_names, cout, trimmed, freed, output_sink, cfg, inputs, sinkFailAt, idx, dfm, cache, live, stopped,
                   readError, seen, trimBuf, tailBuf, written, sends,
                   file_error, exitStatus, warnings, delivered, forwarded>>

\* file_error = ignore_file_errors ? false : file_error; return
Finish ==
    /\ pc = "finish"
    /\ LET fe == IF cfg.ignore_file_errors THEN FALSE ELSE file_error
       IN  /\ file_error' = fe
           /\ exitStatus' = IF fe THEN "EXIT_FAILURE" ELSE "EXIT_SUCCESS"
    /\ pc' = "teardown"
    /\ UNCHANGED <<strategyVars, stream_names, cout, trimmed, freed, output_sink, cfg, inputs, sinkFailAt, idx, dfm, cache, live, stopped,
                   readError, seen, trimBuf, tailBuf, written, sends,
                   warnings, delivered, forwarded>>

\* the locals of main are destroyed: ~TrimmedOutput, then ~TailedOutput;
\* a throw out of a destructor ends the process through terminate()
Teardown ==
    /\ pc = "teardown"
    /\ LET c1 == IF cfg.trim_len > 0 THEN TrimmedOutput_dtor(Chain) ELSE Chain
           c2 == IF cfg.tail_len > 0 THEN TailedOutput_dtor(c1) ELSE c1
       IN  /\ trimBuf' = c2.trim
           /\ tailBuf' = c2.tail
           /\ written' = c2.written
           /\ sends' = c2.sends
           /\ trimmed' = c2.trimmed
           /\ freed' = c2.freed
           /\ cout' = c2.cout
           /\ exitStatus' = IF c2.threw THEN "ABORT" ELSE exitStatus
    /\ pc' = "done"
    /\ UNCHANGED <<strategyVars, stream_names, output_sink, cfg, inputs, sinkFailAt, idx, dfm, cache, live, stopped,
                   readError, seen, file_error, warnings, delivered, forwarded>>

Next ==
    \/ Validate
    \/ OpenInput
    \/ Build
    \/ StartRun
    \/ Deliver
    \/ RunReturns
    \/ Finish
    \/ Teardown

----------------------------------------------------------------------------
(* Specifications *)

\* the configurations of Cfgs, each with and without --with-filename
WithNames(Cfgs) ==
    {[c EXCEPT !.print_names = b] : c \in Cfgs, b \in BOOLEAN}

CfgSet(starts, ends, heads, tails, trims, ignores, linears) ==
    {[start_tv |-> a, end_tv |-> b, head_len |-> h, tail_len |-> t,
      trim_len |-> x, ignore_file_errors |-> g, linear_only |-> l,
      print_names |-> FALSE] :
        a \in starts, b \in ends, h \in heads, t \in tails, x \in trims,
        g \in ignores, l \in linears}

\* several sorted datafiles, each undelayed or with the largest delay; no open
\* failure, no window, no fault
InitMerge ==
    InitWith(CfgSet({earliest, 2}, {latest}, {0}, {0}, {0}, {FALSE}, {FALSE}),
             InputsOf(FileSet(SortedSeqsUpTo({1, MergeTime}, MaxLen), {0, MaxDelay},
                              {FALSE}, {0}),
                      0 .. MergeFiles),
             {0})

\* several sorted datafiles, some of which cannot be opened
InitOpen ==
    InitWith(CfgSet({earliest, 2}, {2, latest}, {0}, {0}, {0}, {FALSE}, {FALSE}),
             InputsOf(FileSet(SortedSeqsUpTo(MergeTimes, OpenLen), {0}, BOOLEAN, {0}),
                      0 .. OpenFiles),
             {0})

\* one sorted datafile through every combination of range, head, trim and tail
InitWindow ==
    InitWith(CfgSet(0 .. MaxTime, (1 .. MaxTime + 1) \cup {latest}, 0 .. MaxWin,
                    0 .. MaxWin, 0 .. MaxWin, {FALSE}, {TRUE}),
             InputsOf(FileSet(SortedSeqsUpTo(Times, MaxStream), {0}, {FALSE}, {0}),
                      0 .. 1),
             {0})

\* read errors and transport failures, with and without the windows
InitFail ==
    InitWith(CfgSet({earliest}, {latest}, {0}, 0 .. 1, 0 .. 1, BOOLEAN, {TRUE}),
             InputsOf(FileSet(SortedSeqsUpTo(MergeTimes, FaultLen), {0}, {FALSE},
                              0 .. FaultLen + 1),
                      0 .. FaultFiles),
             0 .. MaxSinkFail)

\* datafiles and standard input, with and without a +delay suffix of either
\* sign, under every choice of reader
InitInput ==
    InitWith(CfgSet({earliest, 2}, {latest}, {0}, {0}, {0}, {FALSE}, BOOLEAN),
             InputsOf(StdinOrFile(FileSet(SortedSeqsUpTo(MergeTimes, MaxLen),
                                          {-1} \cup (0 .. MaxDelay), {FALSE}, {0})),
                      0 .. 2),
             {0})

\* streams that end or fail to be read, in runs that end by exhaustion, by the
\* end of the range or by the head count
InitEnd ==
    InitWith(CfgSet({earliest}, {2, latest}, 0 .. 1, {0}, {0}, {FALSE}, {TRUE}),
             InputsOf(FileSet(SortedSeqsUpTo(MergeTimes, FaultLen), {0}, {FALSE},
                              0 .. FaultLen + 1),
                      0 .. 2),
             {0})

\* datafiles whose records need not be in time order, read with either reader
InitUnsorted ==
    InitWith(CfgSet({earliest, 1, 2}, {2, latest}, {0}, {0}, {0}, {FALSE}, BOOLEAN),
             InputsOf(FileSet(SeqsUpTo(MergeTimes, MaxLen), {0}, {FALSE}, {0}),
                      0 .. 2),
             {0})

\* sorted datafiles, some behind a delay wrapper, with and without
\* --with-filename, every window and a head limit
InitNames ==
    InitWith(WithNames(CfgSet({earliest}, {2, latest}, 0 .. 1, 0 .. 1, 0 .. 1,
                              {FALSE}, {TRUE})),
             InputsOf(FileSet(SortedSeqsUpTo({1, MergeTime}, MaxLen), {0, MaxDelay},
                              {FALSE}, {0}),
                      0 .. 2),
             {0})

Init == InitFail

Spec == Init /\ [][Next]_vars

SpecMerge == InitMerge /\ [][Next]_vars

SpecOpen == InitOpen /\ [][Next]_vars

SpecWindow == InitWindow /\ [][Next]_vars

SpecInput == InitInput /\ [][Next]_vars

\* main is sequential code that keeps running: a step that can be taken is taken
SpecUnsorted == InitUnsorted /\ [][Next]_vars

SpecNames == InitNames /\ [][Next]_vars /\ WF_vars(Next)

SpecFair == InitEnd /\ [][Next]_vars /\ WF_vars(Next)

----------------------------------------------------------------------------
(* Reference definitions for the properties *)

Slice(s, from, to) == [a \in 1 .. Max(0, to - from) |-> s[from + a]]

NonDecreasing(s) == \A a, b \in 1 .. Len(s) : a < b => s[a].t <= s[b].t

IsPrefix(s, t) == Len(s) <= Len(t) /\ \A a \in 1 .. Len(s) : s[a] = t[a]

Opened == {a \in 1 .. Len(inputs) : ~inputs[a].openFails}

Registered == {dfm[s].inp : s \in 1 .. Len(dfm)}

\* every record a datafile yields to the multiplexer when nothing fails
StreamMsgs(a) ==
    LET f == inputs[a]
    IN  {[t |-> f.msgs[p] + f.delay, src |-> a, k |-> p] :
            p \in FirstPos(f) .. Len(f.msgs)}

MsgsOf(S) == UNION {StreamMsgs(a) : a \in S}

\* time first, then the order of the command line, then the file position
Before(m, o) ==
    \/ m.t < o.t
    \/ m.t = o.t /\ m.src < o.src
    \/ m.t = o.t /\ m.src = o.src /\ m.k < o.k

RECURSIVE SortSet(_)
SortSet(S) ==
    IF S = {} THEN <<>>
    ELSE LET m == CHOOSE m \in S : \A o \in S \ {m} : Before(m, o)
         IN  <<m>> \o SortSet(S \ {m})

InRange(m) == m.t >= cfg.start_tv /\ m.t < cfg.end_tv

SortedInputs(S) == \A a \in S : IsSorted(inputs[a].msgs)

\* main got past the option checks and returned, and the locals are destroyed
Completed == pc = "done" /\ inputs # <<>> /\ cfg.start_tv < cfg.end_tv

----------------------------------------------------------------------------
(* C1: when every registered datafile is sorted by time, the messages the  *)
(* multiplexer hands to onMessage are in non-decreasing time order, at     *)
(* every point of the run.                                                 *)
C1_GlobalOrder == SortedInputs(Registered) => NonDecreasing(delivered)

\* a finished run in which two sorted files were interleaved
C1_Witness ==
    /\ Completed
    /\ SortedInputs(Registered)
    /\ \E a, b, c \in 1 .. Len(delivered) :
          /\ a < b /\ b < c
          /\ delivered[a].src = delivered[c].src
          /\ delivered[a].src # delivered[b].src
          /\ delivered[a].t < delivered[c].t

(* C2: the delivered sequence is a function of the datafiles and of the    *)
(* order they were added in: when run() returns it is a prefix of (and,    *)
(* without a stop, equal to) the messages of the registered files sorted   *)
(* by time and, for equal times, by the order of registration; so of two   *)
(* messages with equal time the one of the stream added first is delivered *)
(* first.                                                                  *)
C2_Deterministic ==
    pc = "finish" /\ SortedInputs(Registered)
        => /\ IsPrefix(delivered, SortSet(MsgsOf(Registered)))
           /\ ~stopped => Len(delivered) = Cardinality(MsgsOf(Registered))

\* a finished run in which two streams held messages of equal time
C2_Witness ==
    /\ Completed
    /\ SortedInputs(Registered)
    /\ \E a, b \in 1 .. Len(delivered) :
          /\ a < b
          /\ delivered[a].t = delivered[b].t
          /\ delivered[a].src < delivered[b].src
          /\ delivered[a].k > delivered[b].k

(* C3: with trim_len = T > 0 and tail_len = M > 0, once main has returned  *)
(* and its locals are destroyed, the messages written are those at the     *)
(* 0-based positions [max(0, K-T-M), K-T) of the K messages that entered   *)
(* the chain, in that order; nothing is written when K <= T.               *)
C3_TrimThenTail ==
    Completed /\ cfg.trim_len > 0 /\ cfg.tail_len > 0
        => LET K == Len(forwarded)
               T == cfg.trim_len
               M == cfg.tail_len
           IN  written = Slice(forwarded, Max(0, K - T - M), K - T)

\* a finished run in which the tail window discarded, the trim window cut
\* and something was written
C3_Witness ==
    /\ Completed /\ cfg.trim_len > 0 /\ cfg.tail_len > 0
    /\ Len(forwarded) > cfg.trim_len + cfg.tail_len
    /\ Len(written) = cfg.tail_len

\* the message of the delivery that a step performs
LastDelivered == delivered'[Len(delivered')]

IsDelivery == Len(delivered') = Len(delivered) + 1

HeadReached == cfg.head_len > 0 /\ seen >= cfg.head_len

C5_OpenFailureIsolated ==
    Completed /\ Opened # 1 .. Len(inputs) /\ SortedInputs(Opened)
        => /\ Registered = Opened
           /\ Len(dfm) = Cardinality(Opened)
           /\ \A s, r \in 1 .. Len(dfm) : s < r => dfm[s].inp < dfm[r].inp
           /\ written = SelectSeq(SortSet(MsgsOf(Opened)), InRange)

\* a finished run over three datafiles: one failed to open, the two others
\* were merged into the output by time, against the order of the command line
C5_Witness ==
    /\ Completed
    /\ Len(inputs) = 3
    /\ Cardinality(Opened) = 2
    /\ inputs[1].openFails \/ inputs[2].openFails
    /\ Len(written) = 2
    /\ written[1].src > written[2].src
    /\ written[1].t < written[2].t

(* C6: a datafile that cannot be opened, without ignore_file_errors, makes *)
(* the process exit with failure although the other files were merged.     *)
C6_OpenFailureReported ==
    Completed /\ Opened # 1 .. Len(inputs) /\ Opened # {} /\ written # <<>>
              /\ ~cfg.ignore_file_errors
        => exitStatus = "EXIT_FAILURE"

(* C7: when no datafile can be opened, nothing is written and the process  *)
(* exits with failure.                                                     *)
C7_NoSourceFails ==
    Completed /\ Opened = {}
        => written = <<>> /\ dfm = <<>> /\ exitStatus = "EXIT_FAILURE"

\* the terminal transport has thrown
SinkThrew == sinkFailAt > 0 /\ sends >= sinkFailAt

\* ... out of a send made while a message was being delivered
SinkThrewInRun == SinkThrew /\ cfg.tail_len = 0

(* C8: main returns failure exactly when a file error (a read error of a   *)
(* stream, or a throw out of the run) occurred during the run and          *)
(* ignore_file_errors is not set, and success otherwise.                   *)
C8_ExitStatus ==
    Completed /\ exitStatus # "ABORT"
        => (exitStatus = "EXIT_FAILURE"
              <=> (readError \/ SinkThrewInRun) /\ ~cfg.ignore_file_errors)

(* C9: a throw of the transport while a message is being forwarded ends    *)
(* the run at once, with no later send, and the process exits with         *)
(* failure whether or not ignore_file_errors is set.                       *)
C9_SinkErrorFatal ==
    Completed /\ SinkThrewInRun
        => /\ sends = sinkFailAt
           /\ Len(written) = sinkFailAt - 1
           /\ exitStatus # "EXIT_SUCCESS"

\* the records of a registered stream that can be read before its error
Readable(s) ==
    LET f == inputs[dfm[s].inp]
    IN  IF f.errAt = 0 THEN Len(f.msgs) ELSE f.errAt - 1

(* C10: after a read error of one stream the run goes on until every other *)
(* stream is exhausted, all their messages are delivered in time order,    *)
(* and when run() has returned main holds file_error = true.               *)
C10_ReadErrorIsolated ==
    (/\ pc = "finish" /\ readError /\ sinkFailAt = 0
     /\ \E e, g \in 1 .. Len(dfm) :
           /\ inputs[dfm[e].inp].errAt > 1
           /\ inputs[dfm[g].inp].errAt = 0 /\ inputs[dfm[g].inp].msgs # <<>>)
        => /\ live = {}
           /\ \A s \in 1 .. Len(dfm) :
                 Cardinality({a \in 1 .. Len(delivered) : delivered[a].src = dfm[s].inp})
                    = Readable(s)
           /\ SortedInputs(Registered) => NonDecreasing(delivered)
           /\ file_error

----------------------------------------------------------------------------
(* C11: when end_tv is before start_tv the process fails at validation:    *)
(* no input is opened or searched, nothing is registered, the output sink  *)
(* is never created, nothing is sent or written, and the exit is a failure.*)
C11_RejectedEagerly ==
    cfg.end_tv < cfg.start_tv
        => /\ pc \in {"start", "done"}
           /\ idx = 1 /\ dfm = <<>> /\ warnings = 0
           /\ output_sink = "none"
           /\ sends = 0 /\ written = <<>> /\ delivered = <<>>
           /\ pc = "done" => exitStatus = "EXIT_FAILURE"

C11_Witness ==
    /\ cfg.end_tv < cfg.start_tv
    /\ inputs # <<>> /\ inputs[1].msgs # <<>>
    /\ pc = "done" /\ exitStatus = "EXIT_FAILURE"

Min(a, b) == IF a <= b THEN a ELSE b

\* the last n elements of s, all of s when it is shorter
LastN(s, n) == Slice(s, Len(s) - Min(n, Len(s)), Len(s))

\* the first n elements of s, all of s when it is shorter
FirstN(s, n) == Slice(s, 0, Min(n, Len(s)))

\* the messages TailedOutput::send has received
TailIn == IF cfg.trim_len > 0 THEN trimmed ELSE forwarded

(* C12: after every completed send a window holds at most its capacity of  *)
(* messages, and they are the most recent ones it received, in the order   *)
(* in which they were inserted.                                            *)
C12_WindowBounded ==
    /\ Len(trimBuf) <= cfg.trim_len
    /\ Len(tailBuf) <= cfg.tail_len
    /\ pc \in {"mplex", "finish", "teardown"}
          => /\ cfg.trim_len > 0 => trimBuf = LastN(forwarded, cfg.trim_len)
             /\ cfg.tail_len > 0 => tailBuf = LastN(TailIn, cfg.tail_len)

C12_Witness ==
    /\ pc = "mplex"
    /\ cfg.trim_len > 1 /\ Len(trimBuf) = cfg.trim_len
    /\ cfg.tail_len > 0 /\ Len(tailBuf) = cfg.tail_len
    /\ Len(forwarded) > cfg.trim_len + cfg.tail_len

(* C13: a trim window of capacity N that has received K messages has       *)
(* handed on exactly the first max(0, K - N) of them, in arrival order, in *)
(* every state, so each one leaves at the send that brings the buffer over *)
(* N; the teardown frees the last min(K, N) and hands none of them on.     *)
C13_TrimForwardsFirst ==
    cfg.trim_len > 0
        => /\ trimmed = FirstN(forwarded, Max(0, Len(forwarded) - cfg.trim_len))
           /\ cfg.tail_len = 0 => written = trimmed
           /\ pc = "done" => trimBuf = <<>>

C13_Witness ==
    /\ pc = "done" /\ exitStatus = "EXIT_SUCCESS"
    /\ cfg.trim_len > 1 /\ cfg.tail_len = 0
    /\ Len(forwarded) > cfg.trim_len + 1
    /\ Len(written) = Len(forwarded) - cfg.trim_len

(* C14: a tail window of capacity M writes nothing while the run is going  *)
(* on, holding the last min(K, M) of the K messages it has received; the   *)
(* teardown writes exactly those, once each, in their original order.      *)
C14_TailForwardsLast ==
    cfg.tail_len > 0
        => /\ pc # "done" => /\ written = <<>> /\ sends = 0
                             /\ tailBuf = LastN(TailIn, cfg.tail_len)
           /\ pc = "done" /\ output_sink = "created"
                 => /\ written = LastN(TailIn, cfg.tail_len)
                    /\ sends = Len(written)

C14_Witness ==
    /\ pc = "done" /\ exitStatus = "EXIT_SUCCESS"
    /\ cfg.tail_len > 1 /\ cfg.trim_len = 0
    /\ Len(forwarded) > cfg.tail_len
    /\ Len(written) = cfg.tail_len

(* C15: with head_len = H > 0 the handler signals Stop in the delivery     *)
(* that forwards the H-th message, with no further message delivered; with *)
(* head_len = 0 Stop is signalled only for a message at or after end_tv.   *)
C15_HeadStopsAtOnce ==
    [][IsDelivery
         => /\ cfg.head_len > 0 /\ seen' = cfg.head_len /\ seen' # seen => stopped'
            /\ cfg.head_len = 0 /\ LastDelivered.t < cfg.end_tv => ~stopped']_vars

\* any message the multiplexer could still hand to the handler
AnyMsg == {[t |-> t, src |-> 1, k |-> 1] : t \in 0 .. latest}

(* C16: with head_len = H > 0 at most H messages are ever forwarded, they  *)
(* are the first H in-range messages of the merged stream, and once H have *)
(* been counted no delivery of any message forwards anything more.         *)
C16_HeadBound ==
    cfg.head_len > 0
        => /\ Len(forwarded) <= cfg.head_len
           /\ forwarded = FirstN(SelectSeq(delivered, InRange), cfg.head_len)
           /\ seen >= cfg.head_len
                 => \A m \in AnyMsg : LET h == onMessage(Chain, m)
                                      IN  ~h.sent /\ h.chain = Chain

C16_Witness ==
    /\ cfg.head_len > 1 /\ stopped
    /\ Len(forwarded) = cfg.head_len
    /\ Len(SelectSeq(delivered, InRange)) > cfg.head_len

\* input b is input a once more, registered with a positive delay
DelayedDuplicate(a, b) ==
    /\ a \in Registered /\ b \in Registered
    /\ inputs[a].msgs = inputs[b].msgs
    /\ inputs[a].delay = 0 /\ inputs[b].delay > 0

(* C17: every delivered message carries the time of its record plus the    *)
(* delay given with its input, and when an input is merged with a copy of  *)
(* itself that has a positive delay, each shifted record is delivered      *)
(* after the same record of the undelayed copy.                            *)
C17_DelayShift ==
    /\ \A a \in 1 .. Len(delivered) :
          LET m == delivered[a]
          IN  m.t = inputs[m.src].msgs[m.k] + inputs[m.src].delay
    /\ \A a, b \in 1 .. Len(inputs) :
          DelayedDuplicate(a, b)
             => \A y \in 1 .. Len(delivered) :
                   delivered[y].src = b
                      => \E x \in 1 .. y - 1 : /\ delivered[x].src = a
                                               /\ delivered[x].k = delivered[y].k

C17_Witness ==
    /\ pc = "done"
    /\ \E a, b \in 1 .. Len(inputs) :
          /\ DelayedDuplicate(a, b) /\ b < a
          /\ Len(inputs[a].msgs) > 1
          /\ inputs[a].msgs[1] < inputs[a].msgs[2]
          /\ Len(delivered) = 2 * Len(inputs[a].msgs)
          /\ delivered[2].src = b /\ delivered[3].src = a

(* C18: no stream is registered with a negative delay: an input whose      *)
(* +delay suffix is negative is not registered at all.                     *)
C18_NoNegativeDelay ==
    \A s \in 1 .. Len(dfm) :
        dfm[s].delay >= 0 /\ inputs[dfm[s].inp].delay >= 0

\* the number of messages of input a that have been delivered
DeliveredOf(a) == Cardinality({x \in 1 .. Len(delivered) : delivered[x].src = a})

(* C19 as stated: a stream read from standard input is registered in       *)
(* linear mode, from its first record, and without a delay wrapper,        *)
(* whatever start_tv, linear_only and the +delay suffix are.               *)
C19_Original ==
    \A s \in 1 .. Len(dfm) :
        inputs[dfm[s].inp].stdin
            => /\ dfm[s].reader = "stdin" /\ dfm[s].first = 1
               /\ ~dfm[s].wrapped /\ dfm[s].delay = 0

(* C19: a stream read from standard input is registered in linear mode,    *)
(* from its first record, whatever start_tv and linear_only are, and every *)
(* record of it is delivered when the run ends without Stop; its +delay    *)
(* suffix is applied as for a datafile: the stream is wrapped exactly when *)
(* the delay is not zero.                                                  *)
C19_StdinLinear ==
    \A s \in 1 .. Len(dfm) :
        inputs[dfm[s].inp].stdin
            => /\ dfm[s].reader = "stdin" /\ dfm[s].first = 1
               /\ dfm[s].delay = inputs[dfm[s].inp].delay
               /\ dfm[s].wrapped <=> inputs[dfm[s].inp].delay # 0
               /\ pc = "finish" /\ ~stopped
                     => DeliveredOf(dfm[s].inp) = Len(inputs[dfm[s].inp].msgs)

C19_Witness ==
    /\ pc = "finish" /\ ~stopped
    /\ cfg.start_tv # earliest /\ ~cfg.linear_only
    /\ \E s \in 1 .. Len(dfm) :
          /\ inputs[dfm[s].inp].stdin
          /\ dfm[s].wrapped /\ dfm[s].delay > 0
          /\ Len(inputs[dfm[s].inp].msgs) > 1
          /\ inputs[dfm[s].inp].msgs[1] < cfg.start_tv
          /\ DeliveredOf(dfm[s].inp) = Len(inputs[dfm[s].inp].msgs)

(* C20: a datafile is opened with the search reader exactly when start_tv  *)
(* is not the earliest time and linear_only is not set, and is then read   *)
(* from the first record at or after start_tv; otherwise it is read from   *)
(* its first record on.                                                    *)
C20_SeekIffStartAndNotLinear ==
    \A s \in 1 .. Len(dfm) :
        LET f == inputs[dfm[s].inp]
        IN  ~f.stdin
              => /\ dfm[s].reader = "search"
                    <=> (cfg.start_tv # earliest /\ ~cfg.linear_only)
                 /\ dfm[s].reader # "search"
                       => dfm[s].reader = "linear" /\ dfm[s].first = 1
                 /\ dfm[s].reader = "search"
                       => /\ \A k \in 1 .. Len(f.msgs) :
                                k < dfm[s].first <=> f.msgs[k] < cfg.start_tv
                          /\ dfm[s].first <= Len(f.msgs) + 1
                 /\ pc = "finish" /\ ~stopped
                       => DeliveredOf(dfm[s].inp) = Len(f.msgs) + 1 - dfm[s].first

C20_Witness ==
    /\ pc = "finish" /\ ~stopped
    /\ \E s \in 1 .. Len(dfm) :
          /\ ~inputs[dfm[s].inp].stdin
          /\ dfm[s].reader = "search" /\ dfm[s].first = 2
          /\ DeliveredOf(dfm[s].inp) = 1

----------------------------------------------------------------------------
\* every record of input a with its time shifted, as a linear read yields them
AllMsgs(a) ==
    LET f == inputs[a]
    IN  {[t |-> f.msgs[p] + f.delay, src |-> a, k |-> p] : p \in 1 .. Len(f.msgs)}

\* what the run writes when every registered input is read from its first
\* record: the merge of all records, passed through the range filter
LinearOutput == SelectSeq(SortSet(UNION {AllMsgs(a) : a \in Registered}), InRange)

(* C21: for sorted inputs and every start_tv, the run with the search      *)
(* reader writes what the run with linear_only writes: no record whose     *)
(* time is at or after start_tv is skipped by the search.                  *)
C21_SeekEqualsLinear ==
    pc = "finish" /\ SortedInputs(Registered) => written = LinearOutput

\* the reference is the output of every linear run, and of every run in which
\* no input has a positive delay
LinearOutputIsReference ==
    pc = "finish" /\ SortedInputs(Registered)
       /\ (cfg.linear_only \/ \A a \in Registered : inputs[a].delay <= 0)
            => written = LinearOutput

(* C22: once stop() has been called no further message is delivered to     *)
(* onMessage and nothing more is forwarded; the delivery that called it is *)
(* completed, and the next step of the loop is the return of run(), even   *)
(* when streams still hold messages.                                       *)
C22_NoDeliveryAfterStop ==
    [][/\ stopped => /\ delivered' = delivered /\ forwarded' = forwarded
                     /\ seen' = seen /\ stopped'
                     /\ pc = "mplex" => pc' = "finish"
       /\ ~stopped /\ stopped'
             => /\ IsDelivery /\ LastDelivered = cache[Earliest]
                /\ pc' = "mplex"]_vars

C22_Witness ==
    /\ pc = "finish" /\ stopped
    /\ live # {}
    /\ \E s \in live : \A x \in 1 .. Len(delivered) : delivered[x] # cache[s]
    /\ Len(forwarded) > 1

\* the work the run loop has left: records not yet read, and live streams
Unread(s) == Max(0, Len(inputs[dfm[s].inp].msgs) + 1 - dfm[s].pos)

RECURSIVE UnreadUpTo(_)
UnreadUpTo(n) == IF n = 0 THEN 0 ELSE Unread(n) + UnreadUpTo(n - 1)

Remaining == UnreadUpTo(Len(dfm)) + Cardinality(live)

(* C23: the run of the multiplexer always ends: every round of the loop    *)
(* reads one record or removes one stream from the live set, so the work   *)
(* left decreases, and run() returns with the live set empty or after      *)
(* stop(), whatever mix of end of stream and read error the streams give.  *)
C23_RunTerminates ==
    /\ [][pc = "mplex" /\ pc' = "mplex"
             => Remaining' < Remaining]_vars
    /\ [][pc = "mplex" /\ pc' = "finish" /\ ~file_error'
             => live = {} \/ stopped]_vars
    /\ (pc = "mplex") ~> (pc = "finish")

C23_Witness ==
    /\ pc = "finish" /\ readError /\ live = {}
    /\ \E s \in 1 .. Len(dfm) : /\ inputs[dfm[s].inp].errAt = 0
                                /\ inputs[dfm[s].inp].msgs # <<>>
    /\ delivered # <<>>

\* the file positions of input a that have been delivered
DeliveredPos(a) == {delivered[x].k : x \in {y \in 1 .. Len(delivered) : delivered[y].src = a}}

(* C24: while no stop and no error ends the run, every record a registered *)
(* stream yields is delivered exactly once and in the order of its stream: *)
(* no message is delivered twice, the delivered records of each stream are *)
(* an unbroken run from its first record on, in file order, and when run() *)
(* returns without a stop every record of every stream has been delivered, *)
(* also those of streams that outlast the others.                          *)
C24_ExactlyOnceInOrder ==
    /\ \A x, y \in 1 .. Len(delivered) :
          x < y => /\ delivered[x] # delivered[y]
                   /\ delivered[x].src = delivered[y].src
                         => delivered[x].k < delivered[y].k
    /\ \A x \in 1 .. Len(delivered) : delivered[x] \in MsgsOf(Registered)
    /\ \A s \in 1 .. Len(dfm) :
          \E n \in 0 .. Len(inputs[dfm[s].inp].msgs) :
              DeliveredPos(dfm[s].inp) = dfm[s].first .. n
    /\ pc = "finish" /\ ~stopped
          => {delivered[x] : x \in 1 .. Len(delivered)} = MsgsOf(Registered)

C24_Witness ==
    /\ pc = "finish" /\ ~stopped
    /\ \E a, b \in 1 .. Len(dfm) :
          /\ a # b
          /\ Cardinality(StreamMsgs(dfm[a].inp)) = 1
          /\ Cardinality(StreamMsgs(dfm[b].inp)) > 1
          /\ delivered[1].src = dfm[a].inp
          /\ Len(delivered) > 2

Range(s) == {s[x] : x \in 1 .. Len(s)}

\* every copy a window made with clone(), as <<window, message>>
Copied ==
    (IF cfg.trim_len > 0 THEN {<<"trim", m>> : m \in Range(forwarded)} ELSE {})
        \cup (IF cfg.tail_len > 0 THEN {<<"tail", m>> : m \in Range(TailIn)} ELSE {})

(* C26: every copy a window buffered is deleted exactly once on every way  *)
(* out of main: no copy is deleted twice or while it is still buffered,    *)
(* and once the locals of main are destroyed every copy has been deleted,  *)
(* also when the transport throws during the run or during the teardown.   *)
C26_ReleasedOnce ==
    /\ \A x, y \in 1 .. Len(freed) : x < y => freed[x] # freed[y]
    /\ Range(freed) \subseteq Copied
    /\ pc # "done"
          => /\ \A m \in Range(trimBuf) : <<"trim", m>> \notin Range(freed)
             /\ \A m \in Range(tailBuf) : <<"tail", m>> \notin Range(freed)
    /\ pc = "done" /\ output_sink = "created" => Range(freed) = Copied

\* the same, for the runs in which the teardown does not throw
ReleasedOnceWithoutTeardownThrow ==
    exitStatus # "ABORT" => C26_ReleasedOnce

\* a message at or after end_tv has been handed to onMessage
EndSeen == \E x \in 1 .. Len(delivered) : delivered[x].t >= cfg.end_tv

(* C27: once a message at or after end_tv has been delivered, nothing is   *)
(* forwarded or written for the rest of the run, also when a stream that   *)
(* is not in time order still holds messages inside the range.             *)
C27_NothingAfterEnd ==
    [][EndSeen => /\ forwarded' = forwarded /\ written' = written
                  /\ delivered' = delivered]_vars

\* a stream out of time order still holds an in-range record after the stop
C27_Witness ==
    /\ pc = "done" /\ EndSeen
    /\ forwarded # <<>>
    /\ \E s \in 1 .. Len(dfm) :
          \E k \in 1 .. Len(inputs[dfm[s].inp].msgs) :
              /\ k \notin DeliveredPos(dfm[s].inp)
              /\ k >= dfm[s].first
              /\ InRange([t |-> inputs[dfm[s].inp].msgs[k]])

\* stream s, opened with the search reader, has yielded records out of order
OrderingViolation(s) ==
    /\ dfm[s].reader = "search"
    /\ \E x, y \in 1 .. Len(delivered) :
          /\ x < y
          /\ delivered[x].src = dfm[s].inp /\ delivered[y].src = dfm[s].inp
          /\ delivered[x].t > delivered[y].t

(* C29: when a stream opened with the search reader yields a record out of *)
(* time order the run does not go on to a successful end: main does not    *)
(* return success with the records written out of order.                   *)
C29_OrderingViolationFatal ==
    pc = "done" /\ (\E s \in 1 .. Len(dfm) : OrderingViolation(s))
        => exitStatus # "EXIT_SUCCESS"

\* what a TailedOutput holds after the messages of seq were sent to it
RECURSIVE TailFeed(_, _)
TailFeed(buf, seq) ==
    IF seq = <<>> THEN buf
    ELSE TailFeed(TailedOutput_pop(Append(buf, Head(seq)), cfg.tail_len), Tail(seq))

\* what a TrimmedOutput has handed on after the messages of seq were sent to it
RECURSIVE TrimFeed(_, _, _)
TrimFeed(buf, out, seq) ==
    IF seq = <<>> THEN out
    ELSE LET b == Append(buf, Head(seq))
         IN  IF Len(b) > cfg.trim_len
             THEN TrimFeed(Tail(b), Append(out, Head(b)), Tail(seq))
             ELSE TrimFeed(b, out, Tail(seq))

\* the output of the chain built the other way round: the tail window
\* outermost, flushing at its teardown into the trim window
TailThenTrim(seq) == TrimFeed(<<>>, <<>>, TailFeed(<<>>, seq))

(* C28: with trim_len = T > 0 and tail_len = M > 0 the chain main builds    *)
(* writes the positions [max(0, K-T-M), K-T) of the K messages sent into   *)
(* it, and the chain built the other way round, tail then trim, writes     *)
(* something else exactly when K > T and K > M: the order of the two       *)
(* windows matters.                                                        *)
C28_OrderMatters ==
    Completed /\ cfg.trim_len > 0 /\ cfg.tail_len > 0
        => LET K == Len(forwarded)
               T == cfg.trim_len
               M == cfg.tail_len
           IN  /\ written = Slice(forwarded, Max(0, K - T - M), Max(0, K - T))
               /\ TailThenTrim(forwarded) # written <=> (K > T /\ K > M)

C28_Witness ==
    /\ Completed /\ cfg.trim_len > 0 /\ cfg.tail_len > cfg.trim_len
    /\ Len(forwarded) > cfg.tail_len
    /\ TailThenTrim(forwarded) # <<>>
    /\ Len(written) > Len(TailThenTrim(forwarded))

(* C30: when start_tv equals end_tv the process fails at validation, as it *)
(* does when end_tv is before start_tv: no input is opened, nothing is     *)
(* registered, no output sink is created and nothing is written.           *)
C30_EqualRejected ==
    cfg.start_tv = cfg.end_tv
        => /\ pc \in {"start", "done"}
           /\ idx = 1 /\ dfm = <<>> /\ warnings = 0
           /\ output_sink = "none"
           /\ sends = 0 /\ written = <<>> /\ delivered = <<>>
           /\ pc = "done" => exitStatus = "EXIT_FAILURE"

C30_Witness ==
    /\ cfg.start_tv = cfg.end_tv
    /\ inputs # <<>>
    /\ \E k \in 1 .. Len(inputs[1].msgs) : inputs[1].msgs[k] = cfg.start_tv
    /\ pc = "done" /\ exitStatus = "EXIT_FAILURE"

----------------------------------------------------------------------------
\* what trim_len and tail_len leave of a stream of messages
Windowed(seq) ==
    LET n == Max(0, Len(seq) - cfg.trim_len)
    IN  IF cfg.tail_len > 0 THEN Slice(seq, Max(0, n - cfg.tail_len), n)
        ELSE Slice(seq, 0, n)

(* C31: with head_len = H > 0 the windows work on the head-limited stream: *)
(* with K' the smaller of H and the number of in-range messages, the       *)
(* messages written are those at positions [max(0, K'-T-M), K'-T) of the   *)
(* in-range stream when a tail window is active, and [0, K'-T) without     *)
(* one; they are not the first H of what the windows leave of the whole    *)
(* in-range stream.                                                        *)
C31_WindowsAfterHead ==
    Completed /\ cfg.head_len > 0 /\ SortedInputs(Registered)
        => written = Windowed(FirstN(LinearOutput, cfg.head_len))

C31_Witness ==
    /\ Completed /\ SortedInputs(Registered)
    /\ cfg.head_len > 1 /\ cfg.trim_len > 0 /\ cfg.tail_len > 0
    /\ Len(LinearOutput) > cfg.head_len
    /\ written # <<>>
    /\ written # FirstN(Windowed(LinearOutput), cfg.head_len)


----------------------------------------------------------------------------
\* the messages of buf as deletions of the window
DeletedAll(window, buf) == [a \in 1 .. Len(buf) |-> <<window, buf[a]>>]

\* the run was left by an exception thrown out of DFStreamMplex::run
ThrownOutOfRun == file_error /\ ~readError

(***************************************************************************)
(* C32: however the run ends once the pipeline is built (sources           *)
(* exhausted, stop(), or an exception out of the multiplexer's run), the   *)
(* teardown is reached; there the trim window first discards its buffer,   *)
(* of which nothing is handed on, and then the tail window sends the       *)
(* messages it holds to the terminal transport, each once, in the order in *)
(* which they were received.                                               *)
(***************************************************************************)
C32_TailFlushedOnEveryEnd ==
    /\ [][pc = "teardown"
            => /\ trimmed' = trimmed
               /\ trimBuf' = <<>> /\ tailBuf' = <<>>
               /\ cfg.tail_len > 0 => written' = written \o tailBuf
               /\ cfg.trim_len > 0 => Range(trimBuf) \cap Range(written') = {}
               /\ freed' = freed
                     \o (IF cfg.trim_len > 0 THEN DeletedAll("trim", trimBuf) ELSE <<>>)
                     \o (IF cfg.tail_len > 0 THEN DeletedAll("tail", tailBuf) ELSE <<>>)]_vars
    /\ output_sink = "created"
          ~> (pc = "done" /\ (cfg.tail_len > 0 => written = LastN(TailIn, cfg.tail_len)))

\* a run left by an exception, with both windows holding messages at the end
C32_Witness ==
    /\ pc = "done" /\ ThrownOutOfRun
    /\ cfg.tail_len > 0 /\ cfg.trim_len > 0
    /\ written # <<>>
    /\ Len(forwarded) > Len(trimmed)



\* the name lookup of onMessage failed: the exception left run()
NameLookupFailed == cfg.print_names /\ ThrownOutOfRun

(***************************************************************************)
(* C33: with --with-filename the name of the origin stream of every        *)
(* delivered message is found, whether the source was added as it is or    *)
(* inside a delay wrapper: the lookup never throws, and every delivered    *)
(* message has its "file:<name>" prefix on the output.                     *)
(***************************************************************************)
C33_NameAlwaysFound ==
    cfg.print_names
        => /\ ~NameLookupFailed
           /\ SelectSeq(cout, LAMBDA e : e[1] = "file")
                 = [a \in 1 .. Len(delivered) |-> <<"file", delivered[a].src>>]

(***************************************************************************)
(* C34: with --with-filename a "file:<name>" prefix is written only for a  *)
(* message that is itself written, immediately before it: in the finished  *)
(* output every prefix is directly followed by a message of the source it  *)
(* names.                                                                  *)
(***************************************************************************)
C34_PrefixOnlyBeforeWritten ==
    pc = "done"
        => \A a \in 1 .. Len(cout) :
              cout[a][1] = "file"
                  => /\ a < Len(cout)
                     /\ cout[a + 1][1] = "msg"
                     /\ cout[a + 1][2].src = cout[a][2]


----------------------------------------------------------------------------
(***************************************************************************)
(* alphaless::Strategy.  Times of the day are whole hours; prices are left *)
(* out of the orders, no callback reads them back.                         *)
(***************************************************************************)

MaxShares == 2   \* strategySettings.shares, positions and book sizes
MaxHours  == 4   \* tick times are FirstHour .. FirstHour + MaxHours
MaxOrders == 6   \* orders sent in the explored runs
MaxClock  == 3   \* seconds the client clock is followed

m_entryTime == 10
m_exitTime == 11
shutdown_delay_secs == 3

\* the first tick time explored, before the entry time
FirstHour == m_entryTime - 1

TickTimes == FirstHour .. FirstHour + MaxHours

\* bb::timeval_t::after
after(t, u) == t > u

\* one order per instrument, in the order of m_instrs (BOOST_FOREACH)
OrderPerInstr(by, dir, tif, size) ==
    [a \in 1 .. Len(m_instrs) |->
        [by |-> by, dir |-> dir, tif |-> tif, instr |-> m_instrs[a],
         size |-> size[m_instrs[a]], filled |-> 0, last |-> 0]]

\* the desired size of an entry or timer order, per instrument
shares == [instr \in DOMAIN m_posMap |-> m_strategySettings.shares]

\* Strategy::Strategy: the fields the constructor sets
Strategy_ctor(Settings, Instrs) ==
    /\ m_strategySettings \in Settings
    /\ m_instrs \in Instrs
    /\ m_trade = FALSE
    /\ m_entryOrdersSent = FALSE
    /\ m_exitOrdersSent = FALSE
    /\ s_tradeOnce = FALSE
    /\ m_posMap = [a \in {m_instrs[b] : b \in 1 .. Len(m_instrs)} |-> 0]
    /\ orders = <<>>
    /\ cancels = <<>>
    /\ lastCommand = "none"
    /\ shutdowns = 0
    /\ now = 0
    /\ shutdownTimerSub = FALSE
    /\ exitAt = 0
    /\ exited = FALSE

\* onTickReceived, first block: the trading flag after a tick at time t
trade_after_tick(t) ==
    IF after(t, m_strategySettings.end_time) THEN FALSE
    ELSE IF ~m_trade /\ after(t, m_strategySettings.start_time) THEN TRUE
    ELSE m_trade

\* variant: the entry block does not look at its latch
sendEntry_noLatch(t) == trade_after_tick(t) /\ after(t, m_entryTime)

\* onTickReceived: the entry block is taken
sendEntry(t) ==
    trade_after_tick(t) /\ after(t, m_entryTime) /\ ~m_entryOrdersSent

\* variant: the exit block waits for start_time only
sendExit_atStart(t) ==
    trade_after_tick(t) /\ after(t, m_strategySettings.start_time)
        /\ ~m_exitOrdersSent

\* onTickReceived: the exit block is taken
sendExit(t) ==
    trade_after_tick(t) /\ after(t, m_exitTime) /\ ~m_exitOrdersSent

\* the orders onTickReceived sends for a tick at time t
tickOrders(t) ==
    (IF sendEntry(t) THEN OrderPerInstr("entry", "BUY", "TIF_DAY", shares) ELSE <<>>)
        \o (IF sendExit(t) THEN OrderPerInstr("exit", "SELL", "TIF_DAY", m_posMap)
            ELSE <<>>)

\* Strategy::onTickReceived for a tick with message time t (onOpenTick hands
\* its tick to it)
onTickReceived(t) ==
    /\ ~exited
    /\ Len(orders) + Len(tickOrders(t)) <= MaxOrders
    /\ m_trade' = trade_after_tick(t)
    /\ m_entryOrdersSent' = (m_entryOrdersSent \/ sendEntry(t))
    /\ m_exitOrdersSent' = (m_exitOrdersSent \/ sendExit(t))
    /\ orders' = orders \o tickOrders(t)
    /\ UNCHANGED <<readerVars, m_strategySettings, m_instrs, s_tradeOnce, m_posMap, cancels,
                   lastCommand, shutdowns, now, shutdownTimerSub, exitAt, exited>>

\* Strategy::hourlyTimerPeriodicCB
hourlyTimerPeriodicCB ==
    /\ ~exited
    /\ IF m_trade
       THEN /\ Len(orders) + Len(m_instrs) <= MaxOrders
            /\ orders' = orders \o OrderPerInstr("timer", "BUY",
                                                 "TIF_IMMEDIATE_OR_CANCEL", shares)
       ELSE UNCHANGED orders
    /\ UNCHANGED <<readerVars, m_strategySettings, m_instrs, m_trade, m_entryOrdersSent,
                   m_exitOrdersSent, s_tradeOnce, m_posMap, cancels,
                   lastCommand, shutdowns, now, shutdownTimerSub, exitAt, exited>>

\* Strategy::onBookChanged, for the book of instr and the best market ml
onBookChanged ==
    /\ ~exited
    /\ \E a \in 1 .. Len(m_instrs), bidLevelChanged, askLevelChanged \in {-1, 0},
          bid_sz \in {1}, ask_sz \in {MaxShares} :
          IF m_trade /\ ~s_tradeOnce /\ (bidLevelChanged = 0 \/ askLevelChanged = 0)
          THEN /\ Len(orders) + 2 <= MaxOrders
               /\ s_tradeOnce' = TRUE
               /\ orders' = orders \o
                     <<[by |-> "book", dir |-> "SHORT", tif |-> "TIF_DAY",
                        instr |-> m_instrs[a], size |-> bid_sz, filled |-> 0,
                        last |-> 0],
                       [by |-> "book", dir |-> "BUY", tif |-> "TIF_DAY",
                        instr |-> m_instrs[a], size |-> ask_sz, filled |-> 0,
                        last |-> 0]>>
          ELSE UNCHANGED <<s_tradeOnce, orders>>
    /\ UNCHANGED <<readerVars, m_strategySettings, m_instrs, m_trade, m_entryOrdersSent,
                   m_exitOrdersSent, m_posMap, cancels, lastCommand,
                   shutdowns, now, shutdownTimerSub, exitAt, exited>>

\* Strategy::onPositionUpdated
onPositionUpdated ==
    /\ ~exited
    /\ \E a \in {1}, pos \in {0, MaxShares} :
          m_posMap' = [m_posMap EXCEPT ![m_instrs[a]] = pos]
    /\ UNCHANGED <<readerVars, m_strategySettings, m_instrs, m_trade, m_entryOrdersSent,
                   m_exitOrdersSent, s_tradeOnce, orders, cancels,
                   lastCommand, shutdowns, now, shutdownTimerSub, exitAt, exited>>

\* onFill: "cancel the leave qty if any"
leavesQty(order) == order.size > order.last

\* a fill of qty for the first order sent, then Strategy::onFill
onFill ==
    /\ ~exited
    /\ \E a \in 1 .. Min(Len(orders), 1) :
          \E qty \in 1 .. orders[a].size - orders[a].filled :
             LET order == [orders[a] EXCEPT !.filled = @ + qty, !.last = qty]
             IN  /\ orders' = [orders EXCEPT ![a] = order]
                 /\ cancels' = IF leavesQty(order) THEN Append(cancels, a)
                               ELSE cancels
    /\ UNCHANGED <<readerVars, m_strategySettings, m_instrs, m_trade, m_entryOrdersSent,
                   m_exitOrdersSent, s_tradeOnce, m_posMap, lastCommand,
                   shutdowns, now, shutdownTimerSub, exitAt, exited>>

\* handleUserMessage: the trading flag after a command for this account
flag_after_command(command) ==
    IF command = "SEND_NOTHING" THEN TRUE
    ELSE IF command = "ALLOW_SENDING" THEN FALSE
    ELSE m_trade

\* Strategy::handleUserMessage
handleUserMessage ==
    /\ ~exited
    /\ \E account \in {"own", "other", "ACCT_ALL"},
          command \in {"SHUTDOWN", "GET_FLAT", "SEND_NOTHING", "ALLOW_SENDING",
                       "unhandled"} :
          IF account \in {"own", "ACCT_ALL"}
          THEN /\ exited' = (command = "SHUTDOWN")
               /\ m_trade' = flag_after_command(command)
               /\ lastCommand' = IF command \in {"SEND_NOTHING", "ALLOW_SENDING"}
                                 THEN command ELSE lastCommand
          ELSE UNCHANGED <<exited, m_trade, lastCommand>>
    /\ UNCHANGED <<readerVars, m_strategySettings, m_instrs, m_entryOrdersSent,
                   m_exitOrdersSent, s_tradeOnce, m_posMap, orders, cancels,
                   shutdowns, now, shutdownTimerSub, exitAt>>

\* variant: every request schedules the timer
shutdown_now_never == FALSE

\* Strategy::shutdown: "we're being told to shut down a second time"
shutdown_now == shutdownTimerSub

\* Strategy::shutdown, called for SIGINT and SIGTERM
shutdown ==
    /\ ~exited
    /\ shutdown_now \/ now + shutdown_delay_secs <= MaxClock
    /\ shutdowns' = shutdowns + 1
    /\ IF shutdown_now
       THEN /\ exited' = TRUE
            /\ UNCHANGED <<shutdownTimerSub, exitAt>>
       ELSE /\ shutdownTimerSub' = TRUE
            /\ exitAt' = now + shutdown_delay_secs
            /\ UNCHANGED exited
    /\ UNCHANGED <<readerVars, m_strategySettings, m_instrs, m_trade, m_entryOrdersSent,
                   m_exitOrdersSent, s_tradeOnce, m_posMap, orders, cancels,
                   lastCommand, now>>

\* the client clock moves on by a second; a shutdown timer that is due
\* calls IMStreamManager::exit
ClockTick ==
    /\ ~exited
    /\ now < MaxClock
    /\ now' = now + 1
    /\ exited' = (shutdownTimerSub /\ exitAt = now + 1)
    /\ UNCHANGED <<readerVars, m_strategySettings, m_instrs, m_trade, m_entryOrdersSent,
                   m_exitOrdersSent, s_tradeOnce, m_posMap, orders, cancels,
                   lastCommand, shutdowns, shutdownTimerSub, exitAt>>

\* bbreader is no part of the strategy's process
ReaderAbsent ==
    /\ cfg = [start_tv |-> earliest, end_tv |-> latest, head_len |-> 0,
              tail_len |-> 0, trim_len |-> 0, ignore_file_errors |-> FALSE,
              linear_only |-> FALSE, print_names |-> FALSE]
    /\ inputs = <<>>
    /\ sinkFailAt = 0
    /\ pc = "absent"
    /\ idx = 1
    /\ dfm = <<>>
    /\ cache = <<>>
    /\ live = {}
    /\ stopped = FALSE
    /\ readError = FALSE
    /\ seen = 0
    /\ trimBuf = <<>>
    /\ tailBuf = <<>>
    /\ written = <<>>
    /\ sends = 0
    /\ file_error = FALSE
    /\ exitStatus = "running"
    /\ warnings = 0
    /\ delivered = <<>>
    /\ forwarded = <<>>
    /\ trimmed = <<>>
    /\ freed = <<>>
    /\ stream_names = {}
    /\ cout = <<>>
    /\ output_sink = "none"

\* a strategy for two instruments, trading between start and end time
InitStrategy ==
    /\ ReaderAbsent
    /\ Strategy_ctor([start_time : {FirstHour, m_exitTime},
                      end_time : {m_exitTime, m_exitTime + 1},
                      shares : {MaxShares}],
                     {<<1, 2>>})

StrategyNext ==
    \/ \E t \in TickTimes : onTickReceived(t)
    \/ hourlyTimerPeriodicCB
    \/ onBookChanged
    \/ onPositionUpdated
    \/ onFill
    \/ handleUserMessage
    \/ shutdown
    \/ ClockTick

SpecStrategy == InitStrategy /\ [][StrategyNext]_vars


----------------------------------------------------------------------------
(* Properties of the strategy *)

\* the orders sent so far by the given block or callback
OrdersBy(by) == SelectSeq(orders, LAMBDA o : o.by = by)

\* the step sends at least one order
SendsOrder == orders' # orders /\ Len(orders') > Len(orders)

(***************************************************************************)
(* C35: the trading flag is false after construction and goes from false   *)
(* to true only in a tick whose message time is strictly after start_time; *)
(* a tick strictly after end_time leaves it false, and no order is sent    *)
(* while such a tick is processed.                                         *)
(***************************************************************************)
C35_TradeWindow ==
    [][/\ ~m_trade /\ m_trade'
            => \E t \in TickTimes :
                  after(t, m_strategySettings.start_time) /\ onTickReceived(t)
       /\ \A t \in TickTimes :
             onTickReceived(t) /\ after(t, m_strategySettings.end_time)
                 => ~m_trade' /\ orders' = orders]_vars

(***************************************************************************)
(* C36: while the last SEND_NOTHING / ALLOW_SENDING command handled for    *)
(* the account is SEND_NOTHING, no tick, book or timer callback sends an   *)
(* order.                                                                  *)
(***************************************************************************)
C36_FrozenSendsNothing ==
    [][lastCommand = "SEND_NOTHING" => ~SendsOrder]_vars

(***************************************************************************)
(* C37: whatever ticks arrive, the entry block sends its orders at most    *)
(* once and the exit block at most once, one order per instrument and in   *)
(* the order of the instruments.                                           *)
(***************************************************************************)
C37_LatchedOnce ==
    /\ Len(OrdersBy("entry")) \in {0, Len(m_instrs)}
    /\ \A a \in 1 .. Len(OrdersBy("entry")) :
          /\ OrdersBy("entry")[a].instr = m_instrs[a]
          /\ OrdersBy("entry")[a].dir = "BUY"
    /\ Len(OrdersBy("exit")) \in {0, Len(m_instrs)}
    /\ \A a \in 1 .. Len(OrdersBy("exit")) :
          /\ OrdersBy("exit")[a].instr = m_instrs[a]
          /\ OrdersBy("exit")[a].dir = "SELL"
    /\ m_entryOrdersSent <=> OrdersBy("entry") # <<>>
    /\ m_exitOrdersSent <=> OrdersBy("exit") # <<>>

\* both blocks have run and the flag is still set: every later tick of the
\* trading hours meets the two latches
C37_Witness ==
    /\ m_entryOrdersSent /\ m_exitOrdersSent /\ m_trade
    /\ Len(OrdersBy("entry")) = Len(m_instrs)
    /\ Len(OrdersBy("exit")) = Len(m_instrs)
    /\ Len(orders) < MaxOrders

(***************************************************************************)
(* C38: in every state m_exitOrdersSent implies m_entryOrdersSent, and     *)
(* every exit SELL is sent after the entry BUY of its instrument.          *)
(***************************************************************************)
C38_ExitAfterEntry ==
    /\ m_exitOrdersSent => m_entryOrdersSent
    /\ \A a \in 1 .. Len(orders) :
          orders[a].by = "exit"
              => \E b \in 1 .. a - 1 :
                    /\ orders[b].by = "entry" /\ orders[b].dir = "BUY"
                    /\ orders[b].instr = orders[a].instr

\* start_time is the exit time and no command touched the flag: the first
\* tick that trades is after both times and sends entry and exit together
C38_Witness ==
    /\ m_strategySettings.start_time = m_exitTime
    /\ lastCommand = "none"
    /\ m_exitOrdersSent /\ m_entryOrdersSent
    /\ Len(OrdersBy("exit")) = Len(m_instrs)

C40_CancelOnlyRemainder ==
    [][\A a \in 1 .. Len(orders) :
          Len(orders') = Len(orders) /\ orders'[a].filled > orders[a].filled
              => IF orders'[a].filled < orders'[a].size
                 THEN cancels' = Append(cancels, a)
                 ELSE cancels' = cancels]_vars

====
